---- MODULE Spec2Model ----
(***************************************************************************)
(* Model of the useInfiniteScroll composable (the pagination and retry     *)
(* state machine) of github-infinite-scroll, together with the part of     *)
(* useGitHubAPI.fetchRepositories it drives.                               *)
(*                                                                         *)
(* The composable runs on a single-threaded event loop.  An async call     *)
(* suspends at exactly two places: the await of fetchRepositories inside   *)
(* loadMore and the await of sleep inside retry.  Every suspended call is  *)
(* an entry of `tasks`; an action is one run-to-completion slice of code   *)
(* between two suspension points.                                          *)
(***************************************************************************)
EXTENDS Integers, Sequences, FiniteSets, Bags, TLC

\* ---------------------------------------------------------------- bounds
\* Highest page the upstream listing serves; a fetch of a later page is
\* rejected.
MaxPage == 2
\* Highest number of suspended async calls (fetches awaited, sleeps pending).
MaxTasks == 2

\* ------------------------------------------------------ program constants
maxRetries == 3
perPage == 10
MinimumItemFloor == 30
BackoffBase == 1000
BackoffCap == 10000

\* ---------------------------------------------------------------- inputs
\* Lengths of the initial snapshot handed to useInfiniteScroll.
InitLens == {0, 25}
\* Numbers of (schema-valid) items a response of the upstream listing can
\* carry: an empty page (the listing has ended) and a full page.
PageLens == {0, perPage}
\* Messages of the classified errors fetchRepositories rejects with.
Messages == {"Network error. Please check your internet connection and try again.",
             "GitHub API is temporarily unavailable. Please try again later."}
\* error.value === null
Null == "null"

\* Items are opaque records with a unique id; the id encodes where the item
\* came from so that order and identity are observable.
Item(page, i) == page * 100 + i
PageData(page, n) == [i \in 1..n |-> Item(page, i)]

VARIABLES
    initialRepositories, \* the snapshot argument of useInfiniteScroll
    repositories,        \* useState 'infinite-scroll-repositories'
    currentPage,         \* useState 'infinite-scroll-current-page'
    loading,             \* useState 'infinite-scroll-loading'
    error,               \* useState 'infinite-scroll-error'
    hasMore,             \* useState 'infinite-scroll-has-more'
    totalLoaded,         \* useState 'infinite-scroll-total-loaded'
    isRetrying,          \* ref(false)
    retryCount,          \* ref(0)
    apiLoading,          \* useGitHubAPI().isLoading
    tasks,               \* bag of the suspended async calls
    ev,                  \* history: the slice of code that ran last
    audit,               \* whether the audit history below is recorded
    freshReset,          \* audit: no fetch issued since construction/reset
    retryFetches,        \* audit: fetches issued by retry() since the last
                         \* successful load or reset
    fetcher              \* the state of useGitHubAPI() taken by itself

state == <<repositories, currentPage, loading, error, hasMore, totalLoaded,
           isRetrying, retryCount>>
vars == <<initialRepositories, repositories, currentPage, loading, error,
          hasMore, totalLoaded, isRetrying, retryCount, apiLoading, tasks,
          ev, audit, freshReset, retryFetches, fetcher>>

\* ------------------------------------------------------------ pure helpers
Min(a, b) == IF a < b THEN a ELSE b

RECURSIVE Pow2(_)
Pow2(n) == IF n <= 0 THEN 1 ELSE 2 * Pow2(n - 1)

\* Variant: the exponent is the retry number instead of the retry number
\* minus one.
getRetryDelay_OffByOne(attempt) == Min(BackoffBase * Pow2(attempt + 1), BackoffCap)

\* getRetryDelay(attempt)
getRetryDelay(attempt) == Min(BackoffBase * Pow2(attempt), BackoffCap)

\* computed canRetry
canRetry == error # Null /\ retryCount < maxRetries /\ ~isRetrying
\* computed isLoadingOrRetrying (exported as `loading`)
isLoadingOrRetrying == loading \/ isRetrying \/ apiLoading
\* Variant: the indicator does not look at the number of items.
shouldShowEndMessage_IgnoresEmpty == ~hasMore /\ ~isLoadingOrRetrying

\* computed shouldShowEndMessage
shouldShowEndMessage == ~hasMore /\ totalLoaded > 0 /\ ~isLoadingOrRetrying

\* Variant: the validation has no upper limit for perPage.
ValidParams_NoUpperLimit(page, pp) == ~(page < 1 \/ pp < 1)

\* fetchRepositories' parameter validation
ValidParams(page, pp) == ~(page < 1 \/ pp < 1 \/ pp > 100)

\* ------------------------------------------------------------------ tasks
LoadTask(page, nested) ==
    [kind |-> "load", page |-> page, perPage |-> perPage, nested |-> nested,
     delay |-> 0, stale |-> FALSE]
SleepTask(delay) ==
    [kind |-> "sleep", page |-> 0, perPage |-> 0, nested |-> FALSE,
     delay |-> delay, stale |-> FALSE]

\* The suspended calls form a bag: the event loop may resume them in any
\* order, and two calls may be suspended with the same data.
Suspend(B, t) == B (+) SetToBag({t})
Resume(B, t) == B (-) SetToBag({t})
IsLoad(t) == t.kind = "load"
IsSleep(t) == t.kind = "sleep"
CountOf(B, t) == IF t \in DOMAIN B THEN B[t] ELSE 0
RECURSIVE SumOver(_, _)
SumOver(B, S) ==
    IF S = {} THEN 0
    ELSE LET t == CHOOSE x \in S : TRUE IN B[t] + SumOver(B, S \ {t})
\* fetches awaited by a loadMore call
Outstanding == SumOver(tasks, {t \in DOMAIN tasks : IsLoad(t)})
\* backoff timers pending in a retry call
Sleeping == SumOver(tasks, {t \in DOMAIN tasks : IsSleep(t)})
\* audit: every suspended call is marked as started before a reset()
MarkStale(B) ==
    IF ~audit THEN B
    ELSE LET S == {[t EXCEPT !.stale = TRUE] : t \in DOMAIN B}
         IN  [r \in S |-> CountOf(B, r) + CountOf(B, [r EXCEPT !.stale = FALSE])]

\* Variant: the catch block of loadMore rethrows.
LoadMoreRejects_Rethrows(ok) == ~ok

\* Whether the promise of a loadMore() call rejects when its fetch settles:
\* the try block ends normally, the catch block stores the message and does
\* not rethrow, finally only clears `loading`.
LoadMoreRejects(ok) == FALSE

\* Whether the promise of a retry() call rejects when its nested loadMore()
\* returns (inner: the nested promise rejected): the catch block stores the
\* message and does not rethrow.
RetryRejects(inner) == FALSE

\* The promise the settlement of call t completes: the retry() call's for a
\* nested load, the loadMore() call's otherwise.
PromiseRejects(t, ok) ==
    IF t.nested THEN RetryRejects(LoadMoreRejects(ok)) ELSE LoadMoreRejects(ok)

\* history record of the last slice: the operation, the page it requested
\* (0: no fetch issued), and for a settlement the outcome, the response's
\* hasMore and item count or the error message, whether the call was nested in retry() and
\* whether the promise of the call rejected; under audit also the settled
\* call's page and whether the call was started before the last reset().
EvNone ==
    [op |-> "init", req |-> 0, page |-> 0, ok |-> FALSE, more |-> FALSE,
     len |-> 0, msg |-> Null, nested |-> FALSE, stale |-> FALSE,
     rejected |-> FALSE]
EvCall(op, req) == [EvNone EXCEPT !.op = op, !.req = req]
EvSettle(t, ok, n, more, msg) ==
    [EvNone EXCEPT !.op = "settle", !.page = IF audit THEN t.page ELSE 0,
                   !.ok = ok, !.len = n, !.more = more, !.msg = msg,
                   !.nested = t.nested, !.stale = t.stale,
                   !.rejected = PromiseRejects(t, ok)]
EvTimer(t, req) ==
    [EvNone EXCEPT !.op = "timer", !.req = req, !.nested = TRUE, !.stale = t.stale]

\* ----------------------------------------------------------- useGitHubAPI
\* A text is a sequence of fragments; concatenation is \o.  Fragments are
\* cut so that an occurrence of the searched text 'rate limit' is one
\* fragment; as in String.prototype.includes the comparison is
\* case-sensitive.
NoText == << >>
Includes(text, needle) == \E i \in 1..Len(text) : text[i] = needle

\* absent number (status code, retryAfter, nextPage = null)
Absent == 0

\* An error object as createAPIError reads it: name, code, message,
\* retryAfter, and (read by the catch block) statusCode and type.
ErrorObj(name, code, message, retryAfter, statusCode) ==
    [name |-> name, code |-> code, message |-> message,
     retryAfter |-> retryAfter, statusCode |-> statusCode, type |-> "none"]

NoAPIError ==
    [type |-> "none", message |-> NoText, statusCode |-> Absent,
     retryAfter |-> Absent]

\* createAPIError(error, statusCode); `details` (the raw error) is left out.
createAPIError(errorObj, statusCode) ==
    LET typed(type, message) ==
            [type |-> type, message |-> message, statusCode |-> statusCode,
             retryAfter |-> Absent]
    IN  IF statusCode # Absent
        THEN CASE statusCode = 403 ->
                    IF errorObj.message # NoText /\ Includes(errorObj.message, "rate limit")
                    THEN [type |-> "rate_limit_exceeded",
                          message |-> <<"GitHub API rate limit exceeded. Please try again later.">>,
                          statusCode |-> statusCode,
                          retryAfter |-> errorObj.retryAfter]
                    ELSE typed("api_error", <<"Access forbidden. Please check API permissions.">>)
               [] statusCode = 404 ->
                    typed("api_error", <<"Repository not found or organization does not exist.">>)
               [] statusCode = 422 ->
                    typed("validation_error", <<"Invalid request parameters.">>)
               [] statusCode \in {500, 502, 503, 504} ->
                    typed("api_error",
                          <<"GitHub API is temporarily unavailable. Please try again later.">>)
               [] OTHER ->
                    IF statusCode >= 400 /\ statusCode < 500
                    THEN typed("api_error",
                               <<"Client error: ">> \o
                               (IF errorObj.message # NoText THEN errorObj.message
                                ELSE <<"Invalid request">>))
                    ELSE IF statusCode >= 500
                    THEN typed("api_error",
                               <<"Server error: ">> \o
                               (IF errorObj.message # NoText THEN errorObj.message
                                ELSE <<"Internal server error">>))
                    ELSE typed("unknown_error", <<"An unexpected error occurred">>)
        ELSE IF errorObj.name = "TypeError" \/ errorObj.code = "NETWORK_ERROR"
             THEN typed("network_error",
                        <<"Network error. Please check your internet connection and try again.">>)
             ELSE typed("unknown_error", <<"An unexpected error occurred">>)

\* An entry of a response body: whether it is a non-null object, and the
\* typeof of each field validateRepository looks at.
Entry(object, id, description, language) ==
    [object |-> object, id |-> id, name |-> "string", full_name |-> "string",
     description |-> description, html_url |-> "string",
     created_at |-> "string", updated_at |-> "string",
     stargazers_count |-> "number", language |-> language]

\* validateRepository(repo)
validateRepository(r) ==
    /\ r.object
    /\ r.id = "number"
    /\ r.name = "string"
    /\ r.full_name = "string"
    /\ (r.description = "string" \/ r.description = "null")
    /\ r.html_url = "string"
    /\ r.created_at = "string"
    /\ r.updated_at = "string"
    /\ r.stargazers_count = "number"
    /\ (r.language = "string" \/ r.language = "null")

\* for (const repo of data) if (validateRepository(repo)) push
RECURSIVE validRepositories(_)
validRepositories(data) ==
    IF data = << >> THEN << >>
    ELSE (IF validateRepository(Head(data)) THEN <<Head(data)>> ELSE << >>)
         \o validRepositories(Tail(data))

NoResponse ==
    [data |-> << >>, hasMore |-> FALSE, nextPage |-> Absent, totalCount |-> 0]

\* Variant: hasMore compares the number of entries received, invalid ones
\* included, with perPage.
GitHubAPIResponse_CountsRaw(data, page, pp) ==
    LET valid == validRepositories(data)
        more == (Len(data) = pp)
    IN  [data |-> valid, hasMore |-> more,
         nextPage |-> IF more THEN page + 1 ELSE Absent,
         totalCount |-> Len(valid)]

\* The value fetchRepositories resolves with for a body that is an array.
GitHubAPIResponse(data, page, pp) ==
    LET valid == validRepositories(data)
        more == (Len(valid) = pp)
    IN  [data |-> valid, hasMore |-> more,
         nextPage |-> IF more THEN page + 1 ELSE Absent,
         totalCount |-> Len(valid)]

\* ---- inputs of the fetcher
FetchPages == {0, 1, 2}
FetchPerPages == {0, 2, 100, 101}
\* entries: a valid repository, a valid one with description and language
\* null, one whose id is a string, and null
Entries == {Entry(TRUE, "number", "string", "string"),
            Entry(TRUE, "number", "null", "null"),
            Entry(TRUE, "string", "string", "string"),
            Entry(FALSE, "undefined", "undefined", "undefined")}
\* bodies of a 2xx response that are arrays
Bodies == UNION {[1..n -> Entries] : n \in 0..2}
\* status codes of an error response
Statuses == {302, 400, 403, 404, 422, 500, 502, 503, 504, 505}
\* messages of the error $fetch rejects with
UpstreamMessages == {NoText, <<"Forbidden">>, <<"rate limit", " exceeded">>,
                     <<"API ", "rate limit", " exceeded for 10.0.0.1">>,
                     <<"Rate limit", " exceeded">>}
\* retry-after header of an error response, in seconds (Absent: no header)
RetryAfterHeaders == {Absent, 60}
\* errors $fetch rejects with when there is no response
NetworkErrors == {ErrorObj("TypeError", "none", <<"Failed to fetch">>, Absent, Absent),
                  ErrorObj("Error", "NETWORK_ERROR", <<"socket hang up">>, Absent, Absent),
                  ErrorObj("Error", "none", <<"Something went wrong">>, Absent, Absent),
                  ErrorObj("FetchError", "none", NoText, Absent, Absent)}

\* What the upstream does with a request: a 2xx response with an array or
\* with something else as body, an error response, or no response.
Upstream ==
       {[kind |-> "array", data |-> b, status |-> 200, retryAfter |-> Absent,
         err |-> ErrorObj("none", "none", NoText, Absent, Absent)] : b \in Bodies}
  \cup {[kind |-> "nonArray", data |-> << >>, status |-> 200, retryAfter |-> Absent,
         err |-> ErrorObj("none", "none", NoText, Absent, Absent)]}
  \cup {[kind |-> "errorResponse", data |-> << >>, status |-> s, retryAfter |-> h,
         err |-> ErrorObj("FetchError", "none", m, Absent, s)] :
            s \in Statuses, h \in RetryAfterHeaders, m \in UpstreamMessages}
  \cup {[kind |-> "noResponse", data |-> << >>, status |-> Absent, retryAfter |-> Absent,
         err |-> e] : e \in NetworkErrors}

\* x-ratelimit-remaining / x-ratelimit-reset headers of a response
\* (Absent: no such header)
RateLimitHeaders == {[remaining |-> Absent, reset |-> Absent],
                     [remaining |-> 59, reset |-> 1700]}

NoUpstream ==
    [kind |-> "none", data |-> << >>, status |-> Absent, retryAfter |-> Absent,
     err |-> ErrorObj("none", "none", NoText, Absent, Absent)]

\* The outcome of the last slice of a fetchRepositories call: "call" (the
\* call suspended on $fetch), "resolve" with `response`, "reject" with
\* `thrown`; `requested` tells whether the slice issued the network request
\* and `upstream` what the upstream answered.
Outcome(op, page, pp, requested, thrown, response, upstream) ==
    [op |-> op, page |-> page, perPage |-> pp, requested |-> requested,
     thrown |-> thrown, response |-> response, upstream |-> upstream]

\* The fetcher after useGitHubAPI(): its four refs, the calls awaiting $fetch
\* and the outcome of the last slice.
FetcherInit ==
    [isLoading |-> FALSE, error |-> NoText,
     rateLimitRemaining |-> Absent, rateLimitReset |-> Absent,
     pending |-> EmptyBag,
     last |-> Outcome("none", 0, 0, FALSE, NoAPIError, NoResponse, NoUpstream)]

\* ------------------------------------------------------------------- Init
Init ==
    /\ \E n \in InitLens : initialRepositories = PageData(1, n)
    /\ repositories = initialRepositories
    /\ currentPage = 1
    /\ loading = FALSE
    /\ error = Null
    /\ hasMore = TRUE
    /\ totalLoaded = Len(initialRepositories)
    /\ isRetrying = FALSE
    /\ retryCount = 0
    /\ apiLoading = FALSE
    /\ tasks = EmptyBag
    /\ ev = EvNone
    /\ audit = FALSE
    /\ freshReset = TRUE
    /\ retryFetches = 0
    /\ fetcher = FetcherInit

\* The same construction with the audit history switched on.
InitAudit ==
    /\ \E n \in InitLens : initialRepositories = PageData(1, n)
    /\ repositories = initialRepositories
    /\ currentPage = 1
    /\ loading = FALSE
    /\ error = Null
    /\ hasMore = TRUE
    /\ totalLoaded = Len(initialRepositories)
    /\ isRetrying = FALSE
    /\ retryCount = 0
    /\ apiLoading = FALSE
    /\ tasks = EmptyBag
    /\ ev = EvNone
    /\ audit = TRUE
    /\ freshReset = TRUE
    /\ retryFetches = 0
    /\ fetcher = FetcherInit

\* --------------------------------------------------------------- loadMore
\* Variant: the guard forgets the exhausted flag.
LoadMoreGuard_IgnoresExhausted == ~loading

\* The guard of loadMore: FALSE is the early return.
LoadMoreGuard == ~(loading \/ ~hasMore)

\* const nextPage = currentPage.value + 1
NextPage == currentPage + 1

\* loadMore from its guard to its await: loading = true, error = null, and
\* the call fetchRepositories(nextPage, perPage), which (the parameters being
\* valid) sets the fetcher's isLoading and suspends on the network.
\* `rest` is the list of the other suspended calls.
LoadMoreBegin(nested, rest) ==
    /\ ValidParams(NextPage, perPage)
    /\ loading' = TRUE
    /\ error' = Null
    /\ apiLoading' = TRUE
    /\ tasks' = Suspend(rest, LoadTask(NextPage, nested))
    /\ freshReset' = (~audit /\ freshReset)
    /\ retryFetches' = IF audit /\ nested THEN retryFetches + 1 ELSE retryFetches
    /\ UNCHANGED <<initialRepositories, fetcher, audit, repositories, currentPage, hasMore,
                   totalLoaded>>

\* loadMore() called from outside (a component, a test, the user).
LoadMore ==
    IF LoadMoreGuard
    THEN /\ BagCardinality(tasks) < MaxTasks
         /\ LoadMoreBegin(FALSE, tasks)
         /\ ev' = EvCall("loadMore", NextPage)
         /\ UNCHANGED <<isRetrying, retryCount>>
    ELSE /\ ev' = EvCall("loadMore", 0)
         /\ UNCHANGED <<initialRepositories, fetcher, audit, repositories, currentPage, loading,
                        error, hasMore, totalLoaded, isRetrying, retryCount,
                        apiLoading, tasks, freshReset, retryFetches>>

\* handleIntersection(entries): the observer callback; the nextTick callback
\* runs in the same macrotask, before any timer or network event.
HandleIntersection(isIntersecting) ==
    IF isIntersecting /\ hasMore /\ ~loading /\ error = Null /\ LoadMoreGuard
    THEN /\ BagCardinality(tasks) < MaxTasks
         /\ LoadMoreBegin(FALSE, tasks)
         /\ ev' = EvCall("boundary", NextPage)
         /\ UNCHANGED <<isRetrying, retryCount>>
    ELSE /\ ev' = EvCall("boundary", 0)
         /\ UNCHANGED <<initialRepositories, fetcher, audit, repositories, currentPage, loading,
                        error, hasMore, totalLoaded, isRetrying, retryCount,
                        apiLoading, tasks, freshReset, retryFetches>>

\* The guard of the list component's handleLoadMore (exposed as the
\* component's loadMore): FALSE is the early return.  `loading` is here the
\* exported computed isLoadingOrRetrying.
HandleLoadMoreGuard == ~(~hasMore \/ isLoadingOrRetrying \/ error # Null)

\* handleLoadMore() of the list component: its guard, then loadMore().
HandleLoadMore ==
    IF HandleLoadMoreGuard /\ LoadMoreGuard
    THEN /\ BagCardinality(tasks) < MaxTasks
         /\ LoadMoreBegin(FALSE, tasks)
         /\ ev' = EvCall("handleLoadMore", NextPage)
         /\ UNCHANGED <<isRetrying, retryCount>>
    ELSE /\ ev' = EvCall("handleLoadMore", 0)
         /\ UNCHANGED <<initialRepositories, fetcher, audit, repositories, currentPage, loading,
                        error, hasMore, totalLoaded, isRetrying, retryCount,
                        apiLoading, tasks, freshReset, retryFetches>>

\* ------------------------------------------------- settlement of a fetch
\* The responses the fetcher can produce for a page: the number of valid
\* items and hasMore = (validRepositories.length === perPage).  Pages beyond
\* MaxPage are never served (the fetch is rejected), which bounds the cursor.
Responses(page) ==
    IF page <= MaxPage THEN {<<n, n = perPage>> : n \in PageLens} ELSE {}

\* Variant: reaching the floor ends the list whatever the page reports.
HasMoreAfter_FloorForces(total, more) ==
    IF total >= MinimumItemFloor THEN FALSE ELSE more

\* hasMore after a successful load: hasMore = response.hasMore, then the
\* floor check `totalLoaded >= 30 && !response.hasMore`.
HasMoreAfter(total, more) ==
    IF total >= MinimumItemFloor /\ ~more THEN FALSE ELSE more

\* currentPage after a successful load: the nextPage the call computed
\* before it suspended.
CursorAfter(t) == t.page

\* Variant: retry() has no finally block.
RetryFinally_StaysRetrying(t) == isRetrying

\* retry's finally block, run when the nested loadMore returns.
RetryFinally(t) == IF t.nested THEN FALSE ELSE isRetrying

\* Variant: the counter counts the appended items only.
TotalAfter_AppendedOnly(items) == Len(items) - Len(initialRepositories)

\* totalLoaded after a successful load: repositories.value.length.
TotalAfter(items) == Len(items)

\* fetchRepositories resolves: the try block of loadMore after the await,
\* then its finally block, then (nested call) the finally block of retry.
SettleSuccess(t, n, more) ==
    LET data == PageData(t.page, n)
    IN  /\ repositories' = repositories \o data
        /\ currentPage' = CursorAfter(t)
        /\ totalLoaded' = TotalAfter(repositories')
        /\ hasMore' = HasMoreAfter(totalLoaded', more)
        /\ retryCount' = 0
        /\ loading' = FALSE
        /\ apiLoading' = FALSE
        /\ isRetrying' = RetryFinally(t)
        /\ tasks' = Resume(tasks, t)
        /\ ev' = EvSettle(t, TRUE, n, more, Null)
        /\ retryFetches' = 0
        /\ UNCHANGED <<initialRepositories, fetcher, audit, error, freshReset>>

\* Variant: the catch block does not store the message.
ErrorAfter_NotStored(msg) == error

\* error.value after a failed load
ErrorAfter(msg) == msg

\* Variant: loadMore has no finally block on the failure path.
SettleFailure_NoFinally(t, msg) ==
        /\ error' = ErrorAfter(msg)
        /\ loading' = loading
        /\ apiLoading' = FALSE
        /\ isRetrying' = RetryFinally(t)
        /\ tasks' = Resume(tasks, t)
        /\ ev' = EvSettle(t, FALSE, 0, FALSE, msg)
        /\ UNCHANGED <<initialRepositories, fetcher, audit, repositories, currentPage, hasMore,
                       totalLoaded, retryCount, freshReset, retryFetches>>

\* fetchRepositories rejects with a classified error: the catch block of
\* loadMore, its finally block, then (nested call) the finally of retry.
SettleFailure(t, msg) ==
        /\ error' = ErrorAfter(msg)
        /\ loading' = FALSE
        /\ apiLoading' = FALSE
        /\ isRetrying' = RetryFinally(t)
        /\ tasks' = Resume(tasks, t)
        /\ ev' = EvSettle(t, FALSE, 0, FALSE, msg)
        /\ UNCHANGED <<initialRepositories, fetcher, audit, repositories, currentPage, hasMore,
                       totalLoaded, retryCount, freshReset, retryFetches>>

\* The fetch awaited by the suspended call t settles, one way or the other.
SettleOf(t) ==
    /\ t \in DOMAIN tasks
    /\ IsLoad(t)
    /\ \/ \E r \in Responses(t.page) : SettleSuccess(t, r[1], r[2])
       \/ \E msg \in Messages : SettleFailure(t, msg)

Settle == \E t \in DOMAIN tasks : SettleOf(t)

\* ------------------------------------------------------------------ retry
\* Variant: the guard forgets the retry budget.
RetryGuard_IgnoresMax == ~isRetrying

\* Variant: the budget test is off by one.
RetryGuard_OffByOne == ~(isRetrying \/ retryCount > maxRetries)

\* The guard of retry: FALSE is the early return.
RetryGuard == ~(isRetrying \/ retryCount >= maxRetries)

\* retry() up to its await of sleep(delay).
Retry ==
    IF RetryGuard
    THEN /\ BagCardinality(tasks) < MaxTasks
         /\ isRetrying' = TRUE
         /\ retryCount' = retryCount + 1
         /\ tasks' = Suspend(tasks, SleepTask(getRetryDelay(retryCount' - 1)))
         /\ ev' = EvCall("retry", 0)
         /\ UNCHANGED <<initialRepositories, fetcher, audit, repositories, currentPage, loading,
                        error, hasMore, totalLoaded, apiLoading, freshReset,
                        retryFetches>>
    ELSE /\ ev' = EvCall("retry", 0)
         /\ UNCHANGED <<initialRepositories, fetcher, audit, repositories, currentPage, loading,
                        error, hasMore, totalLoaded, isRetrying, retryCount,
                        apiLoading, tasks, freshReset, retryFetches>>

\* The backoff timer of a retry() fires: error = null, then the nested
\* loadMore().  When the nested call returns at its guard, retry's finally
\* block runs at once.
TimerOf(t) ==
    /\ t \in DOMAIN tasks
    /\ IsSleep(t)
    /\ IF LoadMoreGuard
       THEN /\ LoadMoreBegin(TRUE, Resume(tasks, t))
            /\ ev' = EvTimer(t, NextPage)
            /\ UNCHANGED <<isRetrying, retryCount>>
       ELSE /\ error' = Null
            /\ isRetrying' = FALSE
            /\ tasks' = Resume(tasks, t)
            /\ ev' = EvTimer(t, 0)
            /\ UNCHANGED <<initialRepositories, fetcher, audit, repositories, currentPage,
                           loading, hasMore, totalLoaded, retryCount,
                           apiLoading, freshReset, retryFetches>>

TimerFire == \E t \in DOMAIN tasks : TimerOf(t)

\* ------------------------------------------------------------------ reset
\* Variant: reset() leaves the retry counter alone.
Reset_KeepsRetryCount ==
    /\ repositories' = initialRepositories
    /\ currentPage' = 1
    /\ loading' = FALSE
    /\ error' = Null
    /\ hasMore' = TRUE
    /\ totalLoaded' = Len(initialRepositories)
    /\ isRetrying' = FALSE
    /\ tasks' = MarkStale(tasks)
    /\ ev' = EvCall("reset", 0)
    /\ freshReset' = TRUE
    /\ retryFetches' = 0
    /\ UNCHANGED <<initialRepositories, fetcher, audit, apiLoading, retryCount>>

\* Variant: reset() leaves the exhausted flag alone.
Reset_KeepsExhausted ==
    /\ repositories' = initialRepositories
    /\ currentPage' = 1
    /\ loading' = FALSE
    /\ error' = Null
    /\ totalLoaded' = Len(initialRepositories)
    /\ retryCount' = 0
    /\ isRetrying' = FALSE
    /\ tasks' = MarkStale(tasks)
    /\ ev' = EvCall("reset", 0)
    /\ freshReset' = TRUE
    /\ retryFetches' = 0
    /\ UNCHANGED <<initialRepositories, fetcher, audit, apiLoading, hasMore>>

\* Variant: reset() empties the list instead of restoring the snapshot.
Reset_ClearsItems ==
    /\ repositories' = << >>
    /\ currentPage' = 1
    /\ loading' = FALSE
    /\ error' = Null
    /\ hasMore' = TRUE
    /\ totalLoaded' = 0
    /\ retryCount' = 0
    /\ isRetrying' = FALSE
    /\ tasks' = MarkStale(tasks)
    /\ ev' = EvCall("reset", 0)
    /\ freshReset' = TRUE
    /\ retryFetches' = 0
    /\ UNCHANGED <<initialRepositories, fetcher, audit, apiLoading>>

\* reset(): every field back to its initial value.  Suspended calls are not
\* cancelled; they are only marked (history) as started before the reset.
Reset ==
    /\ repositories' = initialRepositories
    /\ currentPage' = 1
    /\ loading' = FALSE
    /\ error' = Null
    /\ hasMore' = TRUE
    /\ totalLoaded' = Len(initialRepositories)
    /\ retryCount' = 0
    /\ isRetrying' = FALSE
    /\ tasks' = MarkStale(tasks)
    /\ ev' = EvCall("reset", 0)
    /\ freshReset' = TRUE
    /\ retryFetches' = 0
    /\ UNCHANGED <<initialRepositories, fetcher, audit, apiLoading>>

\* ------------------------------------------------------------------- Next
Next ==
    \/ LoadMore
    \/ \E b \in BOOLEAN : HandleIntersection(b)
    \/ HandleLoadMore
    \/ Settle
    \/ Retry
    \/ TimerFire
    \/ Reset

Spec == Init /\ [][Next]_vars

\* The same program, with the audit history recorded.
SpecAudit == InitAudit /\ [][Next]_vars

\* The calls that can be suspended (no audit marks).
LoadTasks == {LoadTask(page, nested) : page \in 2..(MaxPage + 1), nested \in BOOLEAN}
SleepTasks == {SleepTask(getRetryDelay(attempt)) : attempt \in 0..(maxRetries - 1)}

\* The network answers every request and every timer set by sleep() fires;
\* nothing is assumed about when, or whether, the operations are called.
Fairness ==
    /\ \A t \in LoadTasks : WF_vars(SettleOf(t))
    /\ \A t \in SleepTasks : WF_vars(TimerOf(t))

\* Construction with the snapshot of 25 items; progress does not depend on
\* the items.
InitLive == Init /\ Len(initialRepositories) = 25

SpecLive == InitLive /\ [][Next]_vars /\ Fairness

\* ---------------------------------------------------- fetchRepositories
\* fetchRepositories(page, perPage) up to its await of $fetch.  Invalid
\* parameters reject before the try block: no request, isLoading untouched.
FetchCall(page, pp) ==
    /\ IF ~ValidParams(page, pp)
       THEN LET validationError ==
                    createAPIError(ErrorObj("none", "none",
                                            <<"Invalid pagination parameters">>,
                                            Absent, Absent), 422)
            IN  fetcher' = [fetcher EXCEPT
                    !.error = validationError.message,
                    !.last = Outcome("reject", page, pp, FALSE, validationError,
                                     NoResponse, NoUpstream)]
       ELSE /\ BagCardinality(fetcher.pending) < MaxTasks
            /\ fetcher' = [fetcher EXCEPT
                    !.isLoading = TRUE,
                    !.error = NoText,
                    !.pending = Suspend(fetcher.pending, [page |-> page, perPage |-> pp]),
                    !.last = Outcome("call", page, pp, TRUE, NoAPIError,
                                     NoResponse, NoUpstream)]
    /\ UNCHANGED <<initialRepositories, repositories, currentPage, loading, error,
                   hasMore, totalLoaded, isRetrying, retryCount, apiLoading, tasks,
                   ev, audit, freshReset, retryFetches>>

\* The error the onResponseError hook throws (type "none": it throws
\* nothing and $fetch rejects with its own error).
OnResponseError(u) ==
    IF u.status = 403 /\ u.retryAfter # Absent
    THEN createAPIError(ErrorObj("none", "none", <<"Rate limit", " exceeded">>,
                                 u.retryAfter, Absent), 403)
    ELSE NoAPIError

\* Variant: the catch block does not pass the status code on.
CaughtError_DropsStatus(err) ==
    IF err.type # "none"
    THEN [type |-> err.type, message |-> err.message,
          statusCode |-> err.statusCode, retryAfter |-> err.retryAfter]
    ELSE createAPIError(err, Absent)

\* The catch block of fetchRepositories: an error that has a type is taken
\* as it is, any other one is classified.
CaughtError(err) ==
    IF err.type # "none"
    THEN [type |-> err.type, message |-> err.message,
          statusCode |-> err.statusCode, retryAfter |-> err.retryAfter]
    ELSE createAPIError(err, err.statusCode)

\* What $fetch (hooks included) and the code after it throw for an upstream
\* answer that does not lead to a result.
ThrownFor(u) ==
    CASE u.kind = "nonArray" ->
            createAPIError(ErrorObj("none", "none", <<"Invalid API response format">>,
                                    Absent, Absent), 422)
      [] u.kind = "errorResponse" ->
            IF OnResponseError(u).type # "none" THEN OnResponseError(u) ELSE u.err
      [] OTHER -> u.err

\* $fetch settles for the suspended call c: the onResponse hook, then the
\* rest of the try block or the catch block, then finally.
FetchSettle(c, u, h) ==
    /\ c \in DOMAIN fetcher.pending
    /\ LET remaining == IF u.kind # "noResponse" /\ h.remaining # Absent
                         THEN h.remaining ELSE fetcher.rateLimitRemaining
           reset == IF u.kind # "noResponse" /\ h.reset # Absent
                    THEN h.reset * 1000 ELSE fetcher.rateLimitReset
       IN  IF u.kind = "array"
           THEN fetcher' = [fetcher EXCEPT
                    !.isLoading = FALSE,
                    !.rateLimitRemaining = remaining,
                    !.rateLimitReset = reset,
                    !.pending = Resume(fetcher.pending, c),
                    !.last = Outcome("resolve", c.page, c.perPage, FALSE, NoAPIError,
                                     GitHubAPIResponse(u.data, c.page, c.perPage), u)]
           ELSE LET apiError == CaughtError(ThrownFor(u))
                IN  fetcher' = [fetcher EXCEPT
                        !.isLoading = FALSE,
                        !.error = apiError.message,
                        !.rateLimitRemaining = remaining,
                        !.rateLimitReset = reset,
                        !.pending = Resume(fetcher.pending, c),
                        !.last = Outcome("reject", c.page, c.perPage, FALSE, apiError,
                                         NoResponse, u)]
    /\ UNCHANGED <<initialRepositories, repositories, currentPage, loading, error,
                   hasMore, totalLoaded, isRetrying, retryCount, apiLoading, tasks,
                   ev, audit, freshReset, retryFetches>>

\* useGitHubAPI() taken by itself, its caller and the upstream being free.
InitFetch ==
    /\ initialRepositories = << >>
    /\ repositories = << >>
    /\ currentPage = 1
    /\ loading = FALSE
    /\ error = Null
    /\ hasMore = TRUE
    /\ totalLoaded = 0
    /\ isRetrying = FALSE
    /\ retryCount = 0
    /\ apiLoading = FALSE
    /\ tasks = EmptyBag
    /\ ev = EvNone
    /\ audit = FALSE
    /\ freshReset = TRUE
    /\ retryFetches = 0
    /\ fetcher = FetcherInit

NextFetch ==
    \/ \E page \in FetchPages, pp \in FetchPerPages : FetchCall(page, pp)
    \/ \E c \in DOMAIN fetcher.pending, u \in Upstream, h \in RateLimitHeaders :
          FetchSettle(c, u, h)

SpecFetch == InitFetch /\ [][NextFetch]_vars

\* ------------------------------------------------------------------ types
TypeOK ==
    /\ currentPage \in 1..MaxPage
    /\ loading \in BOOLEAN /\ hasMore \in BOOLEAN /\ isRetrying \in BOOLEAN
    /\ apiLoading \in BOOLEAN /\ freshReset \in BOOLEAN /\ audit \in BOOLEAN
    /\ error \in Messages \cup {Null}
    /\ retryCount \in 0..maxRetries
    /\ IsABag(tasks) /\ BagCardinality(tasks) <= MaxTasks
    /\ totalLoaded = Len(repositories)

\* ============================================================== properties

\* C1: at most one fetch issued by loadMore() (directly or nested inside
\* retry()) is outstanding in every reachable state.
C1_AtMostOneOutstanding == Outstanding <= 1

\* C2: a response (success or failure) to a fetch that was issued before a
\* reset() is ignored: it changes none of items, cursor, exhausted, lastError,
\* retryCount and status.
C2_StaleResponseIgnored ==
    [][(ev'.op = "settle" /\ ev'.stale)
         => UNCHANGED <<repositories, currentPage, hasMore, error, retryCount,
                        loading, isRetrying>>]_vars

\* C3: loadMore() called while a load is in flight (loading) or while
\* exhausted (~hasMore) issues no fetch and changes none of items, cursor,
\* status, lastError, exhausted and retryCount.
C3_LoadMoreGuardedNoop ==
    [][(ev'.op = "loadMore" /\ (loading \/ ~hasMore))
         => /\ ev'.req = 0
            /\ tasks' = tasks
            /\ UNCHANGED <<repositories, currentPage, loading, isRetrying,
                           error, hasMore, retryCount, totalLoaded, apiLoading>>]_vars

\* C3 witness: loadMore() was called on an exhausted list, or with a fetch
\* in flight, and issued nothing.
C3_Witness ==
    /\ ev.op = "loadMore" /\ ev.req = 0
    /\ \/ ~hasMore /\ tasks = EmptyBag
       \/ loading /\ Outstanding = 1

\* C4: loadMore() is a no-op whenever status is not Idle, i.e. also while a
\* retry() is in progress, its backoff delay included.
C4_LoadMoreNoopUnlessIdle ==
    [][(ev'.op = "loadMore" /\ (loading \/ isRetrying))
         => /\ ev'.req = 0
            /\ tasks' = tasks
            /\ UNCHANGED <<repositories, currentPage, loading, isRetrying,
                           error, hasMore, retryCount, totalLoaded, apiLoading>>]_vars

\* C5: every successful load appends exactly the page's items, in order,
\* after the existing items, so the length grows by the page's item count,
\* and the cursor increases by exactly 1.
C5_SuccessAppendsAndAdvances ==
    [][(ev'.op = "settle" /\ ev'.ok)
         => /\ repositories' = repositories \o PageData(ev'.page, ev'.len)
            /\ Len(repositories') = Len(repositories) + ev'.len
            /\ currentPage' = currentPage + 1]_vars

\* C6: every fetch requests page cursor+1 with the configured page size;
\* page 1 is never requested; the first fetch after construction or after
\* reset() requests page 2.
C6_FetchRequestsNextPage ==
    [][(ev'.req # 0)
         => /\ ev'.req = currentPage + 1
            /\ \E t \in DOMAIN tasks' :
                  /\ IsLoad(t) /\ t.page = ev'.req /\ t.perPage = perPage
                  /\ CountOf(tasks', t) = CountOf(tasks, t) + 1
            /\ ev'.req # 1
            /\ (freshReset => ev'.req = 2)]_vars

\* C7: after every successful load exhausted = NOT page.hasMore, whatever the
\* total item count (the floor of 30 never forces exhaustion by itself).
C7_ExhaustedIsNotHasMore ==
    (ev.op = "settle" /\ ev.ok) => (hasMore = ev.more)

\* C7 witness: 25 items, then a full page with hasMore = true: the total
\* passes the floor and the list is not exhausted.
C7_Witness ==
    /\ ev.op = "settle" /\ ev.ok /\ ev.more /\ ev.len = perPage
    /\ Len(initialRepositories) = 25
    /\ Len(repositories) >= MinimumItemFloor
    /\ hasMore

\* C8: after a failed load lastError is the error's message; items, cursor,
\* exhausted and retryCount are unchanged; loading is false; and canRetry
\* holds if retryCount < maxRetries and no retry is in progress.
C8_FailedLoad ==
    [][(ev'.op = "settle" /\ ~ev'.ok)
         => /\ error' = ev'.msg
            /\ UNCHANGED <<repositories, currentPage, hasMore, retryCount,
                           totalLoaded>>
            /\ loading' = FALSE
            /\ ((retryCount' < maxRetries /\ ~isRetrying') => canRetry')]_vars

\* C8 witness: a load has failed and a retry is offered.
C8_Witness ==
    /\ ev.op = "settle" /\ ~ev.ok
    /\ error = ev.msg /\ error # Null
    /\ ~loading /\ canRetry

\* C9: reset() from any state yields the initial snapshot, cursor 1, status
\* Idle, no error, not exhausted, retryCount 0 and totalLoaded = snapshot
\* length; a second reset() in a row changes nothing.
C9_ResetRestoresInitial ==
    [][(ev'.op = "reset")
         => /\ repositories' = initialRepositories
            /\ currentPage' = 1
            /\ loading' = FALSE /\ isRetrying' = FALSE
            /\ error' = Null
            /\ hasMore' = TRUE
            /\ retryCount' = 0
            /\ totalLoaded' = Len(initialRepositories)
            /\ (ev.op = "reset" => UNCHANGED vars)]_vars

\* C9 witness: reset() was called with a fetch outstanding and a retry's
\* backoff pending.
C9_Witness ==
    /\ ev.op = "reset"
    /\ Outstanding >= 1 /\ Sleeping >= 1
    /\ repositories = initialRepositories /\ currentPage = 1 /\ retryCount = 0

\* C10: retry() issues at most maxRetries fetches between two successful
\* loads or resets; a retry() that passes its guard increments retryCount by
\* one; with retryCount = maxRetries canRetry is false and retry() is a no-op
\* that issues no fetch.
C10_RetryBounded ==
    [][/\ retryFetches' <= maxRetries
       /\ (retryCount >= maxRetries => ~canRetry)
       /\ (ev'.op = "retry" /\ retryCount >= maxRetries
             => tasks' = tasks /\ UNCHANGED state)
       /\ (ev'.op = "retry" /\ ~isRetrying /\ retryCount < maxRetries
             => retryCount' = retryCount + 1)]_vars

\* C11: retry() called while another retry() is in progress, or with
\* retryCount >= maxRetries, is a no-op: no state field changes, no backoff
\* delay is started and no fetch is issued.
C11_RetryGuardedNoop ==
    [][(ev'.op = "retry" /\ (isRetrying \/ retryCount >= maxRetries))
         => /\ tasks' = tasks
            /\ UNCHANGED <<repositories, currentPage, loading, isRetrying,
                           error, hasMore, retryCount, totalLoaded, apiLoading>>]_vars

\* C11 witness: retry() was called with the budget used up (the third
\* attempt has failed) and did nothing.
C11_Witness ==
    /\ ev.op = "retry"
    /\ retryCount = maxRetries /\ ~isRetrying /\ error # Null
    /\ tasks = EmptyBag

\* C12: 0 <= retryCount <= maxRetries in every reachable state.
C12_RetryCountBounded == retryCount >= 0 /\ retryCount <= maxRetries

\* C12 witness: the budget is used up and the third retry is in progress
\* while another call is suspended as well.
C12_Witness ==
    /\ retryCount = maxRetries /\ isRetrying
    /\ BagCardinality(tasks) = 2

\* C13: retryCount is 0 after every successful load, however the load was
\* started (loadMore(), boundary signal, nested attempt of retry()); after a
\* retry() whose nested load succeeds, lastError is null and the page's items
\* are appended.
C13_SuccessClearsRetryState ==
    [][(ev'.op = "settle" /\ ev'.ok)
         => /\ retryCount' = 0
            /\ ev'.nested => /\ error' = Null
                             /\ Len(repositories') = Len(repositories) + ev'.len
                             /\ SubSeq(repositories', 1, Len(repositories))
                                  = repositories]_vars

C15_ExhaustedUntilReset ==
    [][(~hasMore /\ ev'.op # "reset") => (~hasMore' /\ ev'.req = 0)]_vars

\* C16: a boundary signal (the observer callback, and the list component's
\* handleLoadMore) starts a load only if exhausted = false, no load is in
\* flight, no retry is in progress and lastError = null; while lastError is
\* set a boundary signal starts no load.
C16_BoundaryStartsOnlyWhenIdle ==
    [][(ev'.op \in {"boundary", "handleLoadMore"} /\ ev'.req # 0)
         => /\ hasMore /\ error = Null
            /\ ~loading /\ Outstanding = 0
            /\ ~isRetrying /\ Sleeping = 0]_vars

\* C17: items changes only when a successful load appends to it or when
\* reset() restores the initial snapshot; the initial snapshot is a prefix of
\* items in every reachable state; failed loads, guarded no-op calls and the
\* steps of retry() (increment, delay, clearing lastError) never change items.
C17_ItemsAppendOrReset ==
    [][LET IsPrefix(p, q) == Len(p) <= Len(q) /\ SubSeq(q, 1, Len(p)) = p
       IN  /\ IsPrefix(initialRepositories, repositories)
           /\ IsPrefix(initialRepositories', repositories')
           /\ repositories' # repositories
                => \/ /\ ev'.op = "settle" /\ ev'.ok
                      /\ Len(repositories') = Len(repositories) + ev'.len
                      /\ IsPrefix(repositories, repositories')
                   \/ /\ ev'.op = "reset"
                      /\ repositories' = initialRepositories
           /\ (ev'.op = "settle" /\ ~ev'.ok) => repositories' = repositories
           /\ (ev'.op \in {"loadMore", "boundary", "handleLoadMore", "retry", "timer"})
                => repositories' = repositories]_vars

\* C17 witness: a full page has just been appended to a snapshot of 25 items.
C17_Witness ==
    /\ ev.op = "settle" /\ ev.ok /\ ev.len = perPage
    /\ Len(initialRepositories) = 25
    /\ repositories = initialRepositories \o PageData(2, perPage)

\* C18: the backoff delay of the n-th consecutive retry (retryCount = n after
\* the increment) is min(1000 * 2^(n-1), 10000) ms, i.e. 1000, 2000, 4000 for
\* n = 1, 2, 3; no delay is below 1000 or above 10000.
C18_BackoffDelay ==
    [][/\ (ev'.op = "retry" /\ retryCount' = retryCount + 1)
            => LET n == retryCount'
                   d == CASE n = 1 -> 1000 [] n = 2 -> 2000 [] n = 3 -> 4000
                          [] OTHER -> 0
               IN  tasks' = Suspend(tasks, SleepTask(d))
       /\ \A t \in DOMAIN tasks' :
             IsSleep(t) => t.delay >= 1000 /\ t.delay <= 10000
       /\ \A n \in 1..6 :
             /\ getRetryDelay(n - 1)
                  = IF 1000 * 2^(n - 1) < 10000 THEN 1000 * 2^(n - 1) ELSE 10000
             /\ getRetryDelay(n - 1) >= 1000 /\ getRetryDelay(n - 1) <= 10000]_vars

\* C18 witness: the third consecutive retry is waiting its 4000 ms.
C18_Witness ==
    /\ ev.op = "retry" /\ retryCount = 3 /\ isRetrying
    /\ CountOf(tasks, SleepTask(4000)) = 1
    /\ error # Null

\* C19: from every reachable state in which lastError is set loading can
\* resume: retry() passes its guard whenever canRetry holds, and reset() is
\* always possible and leads to a state in which loadMore() and a boundary
\* signal issue a fetch; no sequence of failures leaves a state from which a
\* fetch can never again be started.
C19_CanResume ==
    /\ error # Null
         => ENABLED (Reset /\ hasMore' /\ ~loading' /\ error' = Null /\ ~isRetrying')
    /\ (canRetry /\ BagCardinality(tasks) < MaxTasks)
         => ENABLED (Retry /\ isRetrying' /\ Sleeping' = Sleeping + 1)
    /\ (ev.op = "reset" /\ BagCardinality(tasks) < MaxTasks)
         => /\ ENABLED (LoadMore /\ ev'.req = NextPage /\ Outstanding' = Outstanding + 1)
            /\ ENABLED (HandleIntersection(TRUE) /\ ev'.req = NextPage
                          /\ Outstanding' = Outstanding + 1)

\* C19 witness: three retries in a row have failed; the retry budget is used
\* up and lastError is set.
C19_Witness ==
    /\ ev.op = "settle" /\ ~ev.ok /\ ev.nested
    /\ error # Null /\ retryCount = maxRetries /\ ~canRetry
    /\ ~isRetrying /\ tasks = EmptyBag

\* C20: the end-of-data indicator shouldShowEndMessage is true exactly when
\* exhausted is true, items is non-empty and neither the loading nor the
\* retrying status is set: it is false while more data may exist, false
\* during a load or a retry, false for an empty list, and true once a load
\* that reported hasMore = false has settled on a non-empty list, even if
\* that page was empty.
C20_EndIndicator ==
    /\ shouldShowEndMessage
         <=> (~hasMore /\ Len(repositories) > 0 /\ ~loading /\ ~isRetrying)
    /\ hasMore => ~shouldShowEndMessage
    /\ (loading \/ isRetrying \/ apiLoading) => ~shouldShowEndMessage
    /\ Len(repositories) = 0 => ~shouldShowEndMessage
    /\ (ev.op = "settle" /\ ev.ok /\ ~ev.more /\ Len(repositories) > 0 /\ ~isRetrying)
         => shouldShowEndMessage

\* C20 witness: an empty page with hasMore = false has settled on the 25
\* items of the snapshot; the indicator is on.
C20_Witness ==
    /\ ev.op = "settle" /\ ev.ok /\ ~ev.more /\ ev.len = 0
    /\ Len(repositories) = 25 /\ ~hasMore
    /\ shouldShowEndMessage

\* C21: fetchRepositories(page, perPage) with page < 1, perPage < 1 or
\* perPage > 100 rejects with a validation_error (message 'Invalid request
\* parameters.', status 422) without issuing a network request, and isLoading
\* stays as it was (false when no other call is in flight).
C21_InvalidParamsRejected ==
    [][(/\ fetcher'.last.op \in {"call", "reject"}
        /\ fetcher'.last.upstream.kind = "none"
        /\ \/ fetcher'.last.page < 1
           \/ fetcher'.last.perPage < 1
           \/ fetcher'.last.perPage > 100)
         => /\ fetcher'.last.op = "reject"
            /\ fetcher'.last.thrown.type = "validation_error"
            /\ fetcher'.last.thrown.message = <<"Invalid request parameters.">>
            /\ fetcher'.last.thrown.statusCode = 422
            /\ ~fetcher'.last.requested
            /\ fetcher'.pending = fetcher.pending
            /\ fetcher'.isLoading = fetcher.isLoading
            /\ (fetcher.pending = EmptyBag => ~fetcher'.isLoading)]_vars

\* C21 witness: fetchRepositories(1, 101) has just been rejected and the
\* fetcher is not loading.
C21_Witness ==
    /\ fetcher.last.op = "reject" /\ fetcher.last.upstream.kind = "none"
    /\ fetcher.last.page = 1 /\ fetcher.last.perPage = 101
    /\ fetcher.last.thrown.statusCode = 422
    /\ ~fetcher.isLoading /\ fetcher.pending = EmptyBag

\* C22: a successful fetchRepositories(page, perPage) returns hasMore = true
\* if and only if the number of items it returns, schema-invalid entries
\* dropped, equals perPage; nextPage is page + 1 when hasMore is true and
\* null otherwise.
C22_HasMoreIffFullPage ==
    fetcher.last.op = "resolve"
      => LET r == fetcher.last.response
             kept == SelectSeq(fetcher.last.upstream.data, validateRepository)
         IN  /\ r.data = kept
             /\ r.hasMore <=> (Len(r.data) = fetcher.last.perPage)
             /\ r.hasMore => r.nextPage = fetcher.last.page + 1
             /\ ~r.hasMore => r.nextPage = Absent
             /\ r.totalCount = Len(r.data)

\* C22 witness: the upstream sent perPage = 2 entries, one of them invalid;
\* one item is returned and hasMore is false.
C22_Witness ==
    /\ fetcher.last.op = "resolve" /\ fetcher.last.perPage = 2
    /\ Len(fetcher.last.upstream.data) = 2
    /\ Len(fetcher.last.response.data) = 1
    /\ ~fetcher.last.response.hasMore
    /\ fetcher.last.response.nextPage = Absent

\* C23: every failed fetch is rejected with exactly one classified error
\* whose message is also stored in the fetcher's error state: no status code
\* and a TypeError / NETWORK_ERROR cause gives network_error; 404 gives
\* api_error 'Repository not found or organization does not exist.';
\* 500/502/503/504 give api_error '... temporarily unavailable ...'; 422 or a
\* non-array body gives validation_error; what is not categorised gives
\* unknown_error 'An unexpected error occurred'; and isLoading is false once
\* the call has settled.
C23_FailuresClassified ==
    [][LET last == fetcher'.last
           e == last.thrown
           u == last.upstream
       IN  (last.op = "reject" /\ u.kind # "none")
            => /\ BagCardinality(fetcher'.pending) = BagCardinality(fetcher.pending) - 1
               /\ e.type \in {"network_error", "api_error", "validation_error",
                               "rate_limit_exceeded", "unknown_error"}
               /\ e.message # NoText
               /\ fetcher'.error = e.message
               /\ ~fetcher'.isLoading
               /\ (u.kind = "noResponse"
                     /\ (u.err.name = "TypeError" \/ u.err.code = "NETWORK_ERROR"))
                    => /\ e.type = "network_error"
                       /\ e.message = <<"Network error. Please check your internet connection and try again.">>
               /\ u.status = 404
                    => /\ e.type = "api_error"
                       /\ e.message = <<"Repository not found or organization does not exist.">>
               /\ u.status \in {500, 502, 503, 504}
                    => /\ e.type = "api_error"
                       /\ e.message = <<"GitHub API is temporarily unavailable. Please try again later.">>
               /\ (u.status = 422 \/ u.kind = "nonArray")
                    => /\ e.type = "validation_error"
                       /\ e.message = <<"Invalid request parameters.">>
               /\ (u.kind = "noResponse"
                     /\ u.err.name # "TypeError" /\ u.err.code # "NETWORK_ERROR")
                    => /\ e.type = "unknown_error"
                       /\ e.message = <<"An unexpected error occurred">>]_vars

\* C23 witness: a second call is still awaiting $fetch when the first one
\* is rejected with the classified 404 error.
C23_Witness ==
    /\ fetcher.last.op = "reject" /\ fetcher.last.upstream.status = 404
    /\ fetcher.last.thrown.type = "api_error"
    /\ fetcher.error = fetcher.last.thrown.message
    /\ ~fetcher.isLoading /\ BagCardinality(fetcher.pending) = 1

\* C26: an upstream 403 that carries a rate-limit indication, either an
\* error message containing 'rate limit' or a retry-after response header, is
\* classified rate_limit_exceeded with message 'GitHub API rate limit
\* exceeded. Please try again later.'; every other 403 is classified
\* api_error.
C26_RateLimitClassified ==
    LET u == fetcher.last.upstream
        e == fetcher.last.thrown
        indication == Includes(u.err.message, "rate limit") \/ u.retryAfter # Absent
    IN  (fetcher.last.op = "reject" /\ u.status = 403)
          => /\ indication
                  => /\ e.type = "rate_limit_exceeded"
                     /\ e.message = <<"GitHub API rate limit exceeded. Please try again later.">>
             /\ ~indication => e.type = "api_error"

\* C24: a retry() call that passes its guard performs, once and in this
\* order: enter Retrying and increment retryCount; wait the backoff delay;
\* clear lastError; make at most one loadMore() attempt; leave Retrying.
\* retry() leaves lastError as it is until the delay has elapsed, issues no
\* fetch before that, and a failed attempt starts no further attempt.
C24_RetryOneDelayOneAttempt ==
    [][/\ (ev'.op = "retry" /\ retryCount' # retryCount)
            => /\ ~isRetrying /\ isRetrying'
               /\ retryCount' = retryCount + 1
               /\ Sleeping' = Sleeping + 1
               /\ error' = error
               /\ ev'.req = 0 /\ Outstanding' = Outstanding
       /\ ev'.op = "timer"
            => /\ Sleeping' = Sleeping - 1
               /\ error' = Null
               /\ retryCount' = retryCount
               /\ IF ev'.req # 0
                  THEN /\ Outstanding' = Outstanding + 1
                       /\ isRetrying' = isRetrying
                       /\ \E t \in DOMAIN tasks' :
                             /\ IsLoad(t) /\ t.nested /\ t.page = ev'.req
                             /\ CountOf(tasks', t) = CountOf(tasks, t) + 1
                  ELSE /\ Outstanding' = Outstanding
                       /\ ~isRetrying'
       /\ (ev'.op = "settle" /\ ev'.nested)
            => /\ ~isRetrying'
               /\ Outstanding' = Outstanding - 1
               /\ Sleeping' = Sleeping
               /\ ~ev'.ok => retryCount' = retryCount]_vars

\* C24 witness: the attempt of the first retry() has failed; the controller
\* has left Retrying and nothing further is scheduled.
C24_Witness ==
    /\ ev.op = "settle" /\ ~ev.ok /\ ev.nested
    /\ retryCount = 1 /\ ~isRetrying /\ ~loading
    /\ tasks = EmptyBag /\ error = ev.msg

\* C25: provided every fetch eventually settles and every backoff timer
\* eventually fires, every loadMore() and retry() that passes its guard
\* eventually returns the controller to Idle, on success and on failure
\* alike: loading and isRetrying never stay set for ever.
C25_EventuallyIdle ==
    /\ loading ~> ~loading
    /\ isRetrying ~> ~isRetrying

\* C25 witness: the attempt of the second retry() has failed and the
\* controller is Idle again.
C25_Witness ==
    /\ ev.op = "settle" /\ ~ev.ok /\ ev.nested
    /\ retryCount = 2 /\ ~loading /\ ~isRetrying
    /\ tasks = EmptyBag

\* C27: the items appended after the snapshot are the pages 2, 3, ... up to
\* the cursor, in increasing order: every appended item belongs to a page in
\* 2..currentPage and no page's items occur twice.
C27_PagesConsecutiveOnce ==
    LET n0 == Len(initialRepositories)
        added == SubSeq(repositories, n0 + 1, Len(repositories))
    IN  /\ \A i \in 1..Len(added) : (added[i] \div 100) \in 2..currentPage
        /\ \A i \in 1..(Len(added) - 1) : added[i] < added[i + 1]

\* C28: a retry() whose backoff delay was pending when reset() was called
\* is cancelled: when the delay elapses it issues no fetch and changes no
\* state.
C28_ResetCancelsPendingRetry ==
    [][(ev'.op = "timer" /\ ev'.stale)
         => /\ ev'.req = 0
            /\ Outstanding' = Outstanding
            /\ UNCHANGED <<repositories, currentPage, loading, error, hasMore,
                           totalLoaded, isRetrying, retryCount>>]_vars

\* C29: whenever lastError is non-null, no fetch is in flight and the list
\* is not exhausted.
C29_ErrorOnlyWhenSettled ==
    error # Null => (Outstanding = 0 /\ hasMore)

\* C30: totalLoaded equals the length of items in every reachable state.
C30_TotalLoadedIsLength == totalLoaded = Len(repositories)

\* C30 witness: a page of 10 items has been appended to the snapshot of 25
\* by a direct loadMore(); the counter is 35.
C30_Witness ==
    /\ ev.op = "settle" /\ ev.ok /\ ~ev.nested /\ ev.len = perPage
    /\ Len(initialRepositories) = 25
    /\ Len(repositories) = 35 /\ totalLoaded = 35

====
